---- MODULE Spec2Model ----
(***************************************************************************)
(* A model of the Embed builder of package disgobed (embed.go).            *)
(*                                                                         *)
(* The builder `e` is a Go struct holding a pointer to the wrapped         *)
(* disgord.Embed and a pointer to a slice of errors.  Every method acts by *)
(* reference on the one wrapped embed object; Finalize hands out that same *)
(* pointer.  Each method is written here as a function from the builder    *)
(* (and its arguments) to the builder after the call, and each action      *)
(* applies one method to the state variable e.                             *)
(***************************************************************************)
EXTENDS Integers, Sequences, FiniteSets

VARIABLES
    e,        \* the builder: e.Embed is the wrapped embed, e.Errors the error slice pointer
    out,      \* the *disgord.Embed the caller holds from Finalize (NilPtr before the first)
    outErrs,  \* the *[]error returned by the call just made, when it was Finalize
    finRun,   \* for each Finalize of the current run of consecutive Finalize calls
              \* (the last two at most): did it return a non-nil error list
    made,     \* how many Field objects the caller has created so far
    hist      \* which course the calls made since NewEmbed have followed (see Course)

vars == <<e, out, outErrs, finRun, made, hist>>

----------------------------------------------------------------------------
(* Limits used by embed.go.                                                *)

lowerCharLimit == 256
upperCharLimit == 2048
maxColorValue == 16777216
maxFieldCount == 25

(* Bounds of the model.                                                    *)

\* longest error list the caller lets build up before calling Finalize
MaxErrors == 2
\* the same, in the runs that add fields or attach sub-objects
MaxFieldErrors == 3
\* how many Field objects the caller creates in the runs that reach the field limit
MaxMade == 27
\* how many fields one AddFields / AddRawFields call is given at most
MaxBatch == 3
\* how many Field objects the caller creates in the runs about the inline flags
MaxInlineMade == 4
\* how many Field objects beyond the limit the caller creates in the runs that
\* attach sub-objects
MaxOver == 1

----------------------------------------------------------------------------
(* Values.                                                                 *)

\* A Go string, as far as embed.go looks at it: its content (an identity)
\* and its byte length len(s).  The empty string is the only one of length 0.
Str(id, n) == [id |-> IF n = 0 THEN 0 ELSE id, len |-> n]
EmptyStr == Str(0, 0)

\* A *[]error: nil, or a pointer to a slice (which may be empty).
NilErrs == [isNil |-> TRUE, list |-> <<>>]
Slice(l) == [isNil |-> FALSE, list |-> l]

\* An error made by fmt.Errorf(format, values...): the template and the
\* values, by type (Go strings with a length, plain words, numbers).
Err(tmpl, words, nums, strs) ==
    [tmpl |-> tmpl, words |-> words, nums |-> nums, strs |-> strs]

\* An error a sub-object builder recorded for itself.
SubErr(i) == Err("subBuilderError", <<>>, <<i>>, <<>>)

\* Pointers.
NilPtr == "nil"
EmbedPtr == "e.Embed"

\* A time.Time: an instant and a location.
Time(i, loc) == [instant |-> i, loc |-> loc]
ZeroTime == Time(0, "UTC")
UTC(t) == Time(t.instant, "UTC")

\* The zero disgord.Embed.
ZeroEmbed ==
    [Title |-> EmptyStr, Type |-> "", Description |-> EmptyStr, URL |-> "",
     Timestamp |-> ZeroTime, Color |-> 0,
     Footer |-> NilPtr, Image |-> NilPtr, Thumbnail |-> NilPtr,
     Video |-> NilPtr, Provider |-> NilPtr, Author |-> NilPtr,
     Fields |-> <<>>]

----------------------------------------------------------------------------
(* The error accumulator.                                                  *)

addError(self, err) ==
    LET alloc == IF self.Errors.isNil THEN Slice(<<>>) ELSE self.Errors
    IN  [self EXCEPT !.Errors = Slice(Append(alloc.list, err))]

addRawError(self, err) ==
    LET alloc == IF self.Errors.isNil THEN Slice(<<>>) ELSE self.Errors
    IN  [self EXCEPT !.Errors = Slice(Append(alloc.list, err))]

RECURSIVE addEach(_, _)
addEach(self, list) ==
    IF list = <<>> THEN self
    ELSE addEach(addRawError(self, Head(list)), Tail(list))

\* Variant: the slice is allocated whenever a list is handed over.
addAllRawErrors_Allocating(self, errs) ==
    IF errs.isNil THEN self
    ELSE addEach([self EXCEPT !.Errors = Slice(self.Errors.list)], errs.list)

addAllRawErrors(self, errs) ==
    IF errs.isNil THEN self ELSE addEach(self, errs.list)

----------------------------------------------------------------------------
(* Construction and the scalar setters.                                    *)

NewEmbed == [Embed |-> ZeroEmbed, Errors |-> NilErrs]

\* Variant: the limit itself is refused.
SetTitle_Strict(self, title) ==
    IF title.len < lowerCharLimit
    THEN [self EXCEPT !.Embed.Title = title]
    ELSE addError(self, Err("characterCountExceedsLimit", <<"embed title">>,
                            <<lowerCharLimit, title.len>>, <<title>>))

SetTitle(self, title) ==
    IF title.len <= lowerCharLimit
    THEN [self EXCEPT !.Embed.Title = title]
    ELSE addError(self, Err("characterCountExceedsLimit", <<"embed title">>,
                            <<lowerCharLimit, title.len>>, <<title>>))

\* Variant: the description is stored before it is checked.
SetDescription_StoreFirst(self, desc) ==
    LET stored == [self EXCEPT !.Embed.Description = desc]
    IN  IF desc.len <= upperCharLimit
        THEN stored
        ELSE addError(stored, Err("characterCountExceedsLimitLong", <<"embed description">>,
                                  <<upperCharLimit, desc.len>>, <<>>))

SetDescription(self, desc) ==
    IF desc.len <= upperCharLimit
    THEN [self EXCEPT !.Embed.Description = desc]
    ELSE addError(self, Err("characterCountExceedsLimitLong", <<"embed description">>,
                            <<upperCharLimit, desc.len>>, <<>>))

SetURL(self, url) == [self EXCEPT !.Embed.URL = url]

\* Variant: the upper bound is accepted.
SetColor_Inclusive(self, color) ==
    IF color >= 0 /\ color <= maxColorValue
    THEN [self EXCEPT !.Embed.Color = color]
    ELSE addError(self, Err("valueNotBetween", <<"embed color">>,
                            <<color, 0, maxColorValue>>, <<>>))

SetColor(self, color) ==
    IF color >= 0 /\ color < maxColorValue
    THEN [self EXCEPT !.Embed.Color = color]
    ELSE addError(self, Err("valueNotBetween", <<"embed color">>,
                            <<color, 0, maxColorValue>>, <<>>))

setRawTimestamp(self, timestamp) == [self EXCEPT !.Embed.Timestamp = timestamp]

SetCurrentTimestamp(self, now) == setRawTimestamp(self, UTC(now))

SetCustomTimestamp(self, t) == setRawTimestamp(self, UTC(t))

\* The platform's embed types.
ValidTypes == {"rich", "image", "video", "gifv", "article", "link"}
checkTypeValid(embedType) == embedType \in ValidTypes

SetType(self, embedType) ==
    IF checkTypeValid(embedType)
    THEN [self EXCEPT !.Embed.Type = embedType]
    ELSE addError(self, Err("invalidEmbedType", <<embedType>>, <<>>, <<>>))

----------------------------------------------------------------------------
(* Fields.  e.Embed.Fields is a slice of pointers; the caller makes a new  *)
(* EmbedField object for every field it hands over, so the slice is        *)
(* modelled as the sequence of the objects pointed to.                     *)

\* The i-th Field object the caller creates.
NewField(i, inline) == [Name |-> Str(i, 5), Inline |-> inline]

\* A sub-object builder (Field, Author, Thumbnail, Footer, Video, Image,
\* Provider) as the Embed sees it: what its Finalize returns.
Builder(raw, errs) == [raw |-> raw, errs |-> errs]
FinalizeSub(builder) == [res |-> builder.raw, errs |-> builder.errs]

\* Variant: the loop sets the flag on copies of the fields.
InlineAllFields_OnCopies(self) == self

InlineAllFields(self) ==
    [self EXCEPT !.Embed.Fields =
        [i \in 1..Len(self.Embed.Fields) |-> [self.Embed.Fields[i] EXCEPT !.Inline = TRUE]]]

OutlineAllFields(self) ==
    [self EXCEPT !.Embed.Fields =
        [i \in 1..Len(self.Embed.Fields) |-> [self.Embed.Fields[i] EXCEPT !.Inline = FALSE]]]

\* Variant: one field too many is accepted.
AddRawField_OffByOne(self, field) ==
    IF Len(self.Embed.Fields) <= maxFieldCount
    THEN [self EXCEPT !.Embed.Fields = Append(self.Embed.Fields, field)]
    ELSE addError(self, Err("fieldLimitReached", <<>>, <<maxFieldCount>>, <<field.Name>>))

AddRawField(self, field) ==
    IF Len(self.Embed.Fields) < maxFieldCount
    THEN [self EXCEPT !.Embed.Fields = Append(self.Embed.Fields, field)]
    ELSE addError(self, Err("fieldLimitReached", <<>>, <<maxFieldCount>>, <<field.Name>>))

\* Variant: the field is added, or refused, before its errors are absorbed.
AddField_LimitFirst(self, field) ==
    LET fin == FinalizeSub(field)
    IN  addAllRawErrors(AddRawField(self, fin.res), fin.errs)

AddField(self, field) ==
    LET fin == FinalizeSub(field)
    IN  AddRawField(addAllRawErrors(self, fin.errs), fin.res)

\* Variant: the loop ends at the first field that does not fit.
RECURSIVE AddFields_StopAtLimit(_, _)
AddFields_StopAtLimit(self, fields) ==
    IF fields = <<>> THEN self
    ELSE LET next == AddField(self, Head(fields))
         IN  IF Len(self.Embed.Fields) >= maxFieldCount THEN next
             ELSE AddFields_StopAtLimit(next, Tail(fields))

RECURSIVE AddFields(_, _)
AddFields(self, fields) ==
    IF fields = <<>> THEN self
    ELSE AddFields(AddField(self, Head(fields)), Tail(fields))

RECURSIVE AddRawFields(_, _)
AddRawFields(self, fields) ==
    IF fields = <<>> THEN self
    ELSE AddRawFields(AddRawField(self, Head(fields)), Tail(fields))

----------------------------------------------------------------------------
(* Sub-objects.                                                            *)

SetRawAuthor(self, author) == [self EXCEPT !.Embed.Author = author]

SetAuthor(self, author) ==
    LET fin == FinalizeSub(author)
    IN  SetRawAuthor(addAllRawErrors(self, fin.errs), fin.res)

SetRawThumbnail(self, thumb) == [self EXCEPT !.Embed.Thumbnail = thumb]

SetThumbnail(self, thumb) ==
    LET fin == FinalizeSub(thumb)
    IN  SetRawThumbnail(addAllRawErrors(self, fin.errs), fin.res)

SetRawProvider(self, provider) == [self EXCEPT !.Embed.Provider = provider]

SetProvider(self, provider) ==
    LET fin == FinalizeSub(provider)
    IN  SetRawProvider(IF ~fin.errs.isNil THEN addAllRawErrors(self, fin.errs) ELSE self,
                       fin.res)

SetRawFooter(self, footer) == [self EXCEPT !.Embed.Footer = footer]

\* Variant: the Footer builder's errors are not absorbed.
SetFooter_DropErrors(self, footer) ==
    LET fin == FinalizeSub(footer)
    IN  SetRawFooter(self, fin.res)

SetFooter(self, footer) ==
    LET fin == FinalizeSub(footer)
    IN  SetRawFooter(addAllRawErrors(self, fin.errs), fin.res)

SetRawVideo(self, vid) == [self EXCEPT !.Embed.Video = vid]

SetVideo(self, vid) ==
    LET fin == FinalizeSub(vid)
    IN  SetRawVideo(addAllRawErrors(self, fin.errs), fin.res)

SetRawImage(self, img) == [self EXCEPT !.Embed.Image = img]

SetImage(self, img) ==
    LET fin == FinalizeSub(img)
    IN  SetRawImage(addAllRawErrors(self, fin.errs), fin.res)

----------------------------------------------------------------------------
(* Finalize: the two values returned, and the builder once the deferred    *)
(* function has run.                                                       *)

\* Variant: the error list is not purged.
Finalize_KeepErrors(self) ==
    [res |-> EmbedPtr, errs |-> self.Errors, self |-> self]

Finalize(self) ==
    [res |-> EmbedPtr, errs |-> self.Errors, self |-> [self EXCEPT !.Errors = NilErrs]]

\* The embed object a pointer handed out by Finalize points to: the
\* builder's own.
Deref(ptr) == e.Embed

----------------------------------------------------------------------------
(* What the caller passes in.                                              *)

Titles == {EmptyStr, Str(1, lowerCharLimit), Str(2, lowerCharLimit),
           Str(3, lowerCharLimit + 1)}
Descriptions == {Str(1, upperCharLimit), Str(2, upperCharLimit + 1)}
URLs == {"", "example.com"}
Colors == {-1, 0, maxColorValue - 1, maxColorValue}
Types == {"rich", "bogus"}
Clock == {Time(1, "Local")}
Times == {Time(1, "Local"), Time(2, "UTC")}

\* The error lists a sub-object builder may hand over: none, an empty
\* slice, one error, two different ones.
SubErrLists == {NilErrs, Slice(<<>>), Slice(<<SubErr(1)>>),
                Slice(<<SubErr(2), SubErr(1)>>)}
\* The error lists of the Field builders passed together to one AddFields.
BatchErrLists == {NilErrs, Slice(<<SubErr(1)>>)}

Footers == {Builder(r, l) : r \in {"footer1", "footer2"}, l \in SubErrLists}
SubBuilders(raw) == {Builder(raw, l) : l \in SubErrLists}

\* All sequences over S of length at most n.
RECURSIVE SeqsUpTo(_, _)
SeqsUpTo(S, n) ==
    IF n = 0 THEN {<<>>}
    ELSE LET shorter == SeqsUpTo(S, n - 1)
         IN  shorter \cup {Append(q, x) : q \in shorter, x \in S}

NoErrors(errs) == errs.isNil \/ errs.list = <<>>

----------------------------------------------------------------------------
(* The course of the calls made so far:                                    *)
(*   "new"     nothing has been called since NewEmbed;                     *)
(*   "fields"  only AddField, each with a Field builder free of errors;    *)
(*   "footer"  first SetFooter with a Footer builder holding exactly one   *)
(*             error (fb), then only field and sub-object calls that       *)
(*             neither record a failure nor set the footer;                *)
(*   "footerFinal"  the "footer" course, then Finalize;                    *)
(*   "emptyAbsorb"  only sub-object builders attached, each handing over   *)
(*             an allocated but empty error slice;                         *)
(*   "overflow"  the last call was AddFields or AddRawFields with two or   *)
(*             more fields, not all of which fitted;                       *)
(*   "inline"  the last call was InlineAllFields;                          *)
(*   "inlineOutline"  the last two calls were InlineAllFields and then     *)
(*             OutlineAllFields;                                           *)
(*   "other"   anything else.                                              *)

NoBuilder == Builder(NilPtr, NilErrs)
Course(kind, fb) == [kind |-> kind, fb |-> fb]
Other == Course("other", NoBuilder)

\* The course after a call that does not set the footer; quiet: the call
\* records no failure.
After(quiet) == IF hist.kind = "footer" /\ quiet THEN hist ELSE Other

AfterAddField(field) ==
    IF hist.kind \in {"new", "fields"} /\ NoErrors(field.errs)
    THEN Course("fields", NoBuilder)
    ELSE After(NoErrors(field.errs) /\ Len(e.Embed.Fields) < maxFieldCount)

AfterBatch(k, quiet) ==
    IF k >= 2 /\ Len(e.Embed.Fields) + k > maxFieldCount
    THEN Course("overflow", NoBuilder)
    ELSE After(quiet /\ Len(e.Embed.Fields) + k <= maxFieldCount)

AfterSub(builder) ==
    IF hist.kind \in {"new", "emptyAbsorb"} /\ builder.errs = Slice(<<>>)
    THEN Course("emptyAbsorb", NoBuilder)
    ELSE After(NoErrors(builder.errs))

AfterSetFooter(footer) ==
    IF hist.kind = "new" /\ ~footer.errs.isNil /\ Len(footer.errs.list) = 1
    THEN Course("footer", footer)
    ELSE IF hist.kind \in {"new", "emptyAbsorb"} /\ footer.errs = Slice(<<>>)
         THEN Course("emptyAbsorb", NoBuilder)
         ELSE Other

AfterOutline ==
    IF hist.kind = "inline" THEN Course("inlineOutline", NoBuilder) ELSE Other

AfterFinalize ==
    IF hist.kind = "footer" THEN Course("footerFinal", hist.fb) ELSE Other

----------------------------------------------------------------------------
(* Actions: one call of one method on the builder.                         *)

\* A call of a chainable method: the builder becomes new.  The caller
\* stops calling methods that would grow the error list beyond cap.
Call(new, cap, course) ==
    /\ Len(new.Errors.list) <= cap
    /\ e' = new
    /\ outErrs' = NilErrs
    /\ finRun' = <<>>
    /\ hist' = course
    /\ UNCHANGED out

CallSetTitle(title) == Call(SetTitle(e, title), MaxErrors, Other) /\ UNCHANGED made
CallSetDescription(desc) == Call(SetDescription(e, desc), MaxErrors, Other) /\ UNCHANGED made
CallSetURL(url) == Call(SetURL(e, url), MaxErrors, Other) /\ UNCHANGED made
CallSetColor(color) == Call(SetColor(e, color), MaxErrors, Other) /\ UNCHANGED made
CallSetCurrentTimestamp(now) ==
    Call(SetCurrentTimestamp(e, now), MaxErrors, Other) /\ UNCHANGED made
CallSetCustomTimestamp(t) ==
    Call(SetCustomTimestamp(e, t), MaxErrors, Other) /\ UNCHANGED made
CallSetType(embedType) == Call(SetType(e, embedType), MaxErrors, Other) /\ UNCHANGED made

CallInlineAllFields ==
    Call(InlineAllFields(e), MaxFieldErrors, Course("inline", NoBuilder)) /\ UNCHANGED made
CallOutlineAllFields ==
    Call(OutlineAllFields(e), MaxFieldErrors, AfterOutline) /\ UNCHANGED made

\* The Field builders / raw fields of one call: new objects, named in the
\* order the caller created them.
FieldBuilders(errLists, inline) ==
    [i \in 1..Len(errLists) |-> Builder(NewField(made + i, inline), errLists[i])]
RawFields(k, inline) == [i \in 1..k |-> NewField(made + i, inline)]

CallAddRawField(inline, cap, errCap) ==
    /\ made < cap
    /\ Call(AddRawField(e, NewField(made + 1, inline)), errCap,
            After(Len(e.Embed.Fields) < maxFieldCount))
    /\ made' = made + 1

CallAddField(errs, inline, cap, errCap) ==
    /\ made < cap
    /\ LET field == Builder(NewField(made + 1, inline), errs)
       IN  Call(AddField(e, field), errCap, AfterAddField(field))
    /\ made' = made + 1

CallAddRawFields(k, cap, errCap) ==
    /\ made + k <= cap
    /\ Call(AddRawFields(e, RawFields(k, FALSE)), errCap, AfterBatch(k, TRUE))
    /\ made' = made + k

CallAddFields(errLists, cap, errCap) ==
    /\ made + Len(errLists) <= cap
    /\ Call(AddFields(e, FieldBuilders(errLists, FALSE)), errCap,
            AfterBatch(Len(errLists), \A i \in 1..Len(errLists) : NoErrors(errLists[i])))
    /\ made' = made + Len(errLists)

CallSetAuthor(author) ==
    Call(SetAuthor(e, author), MaxFieldErrors, AfterSub(author))
    /\ UNCHANGED made
CallSetRawAuthor(author) ==
    Call(SetRawAuthor(e, author), MaxFieldErrors, After(TRUE)) /\ UNCHANGED made
CallSetThumbnail(thumb) ==
    Call(SetThumbnail(e, thumb), MaxFieldErrors, AfterSub(thumb))
    /\ UNCHANGED made
CallSetRawThumbnail(thumb) ==
    Call(SetRawThumbnail(e, thumb), MaxFieldErrors, After(TRUE)) /\ UNCHANGED made
CallSetProvider(provider) ==
    Call(SetProvider(e, provider), MaxFieldErrors, AfterSub(provider))
    /\ UNCHANGED made
CallSetRawProvider(provider) ==
    Call(SetRawProvider(e, provider), MaxFieldErrors, After(TRUE)) /\ UNCHANGED made
CallSetFooter(footer) ==
    Call(SetFooter(e, footer), MaxFieldErrors, AfterSetFooter(footer)) /\ UNCHANGED made
CallSetRawFooter(footer) ==
    Call(SetRawFooter(e, footer), MaxFieldErrors, Other) /\ UNCHANGED made
CallSetVideo(vid) ==
    Call(SetVideo(e, vid), MaxFieldErrors, AfterSub(vid)) /\ UNCHANGED made
CallSetRawVideo(vid) ==
    Call(SetRawVideo(e, vid), MaxFieldErrors, After(TRUE)) /\ UNCHANGED made
CallSetImage(img) ==
    Call(SetImage(e, img), MaxFieldErrors, AfterSub(img)) /\ UNCHANGED made
CallSetRawImage(img) ==
    Call(SetRawImage(e, img), MaxFieldErrors, After(TRUE)) /\ UNCHANGED made

\* Finalize returns two values and leaves the builder with no error list.
CallFinalize ==
    LET r == Finalize(e)
        had == ~r.errs.isNil
    IN  /\ e' = r.self
        /\ out' = r.res
        /\ outErrs' = r.errs
        /\ finRun' = IF finRun = <<>> THEN <<had>> ELSE <<finRun[Len(finRun)], had>>
        /\ hist' = AfterFinalize
        /\ UNCHANGED made

----------------------------------------------------------------------------
(* Specifications.                                                         *)

Init ==
    /\ e = NewEmbed
    /\ out = NilPtr
    /\ outErrs = NilErrs
    /\ finRun = <<>>
    /\ made = 0
    /\ hist = Course("new", NoBuilder)

\* The scalar properties of the embed.
Next ==
    \/ \E title \in Titles : CallSetTitle(title)
    \/ \E desc \in Descriptions : CallSetDescription(desc)
    \/ \E url \in URLs : CallSetURL(url)
    \/ \E color \in Colors : CallSetColor(color)
    \/ \E now \in Clock : CallSetCurrentTimestamp(now)
    \/ \E t \in Times : CallSetCustomTimestamp(t)
    \/ \E embedType \in Types : CallSetType(embedType)
    \/ CallFinalize

Spec == Init /\ [][Next]_vars

\* Fields, one at a time and several at a time, up to and beyond the limit.
NextFields ==
    \/ CallAddRawField(FALSE, MaxMade, MaxFieldErrors)
    \/ \E errs \in SubErrLists : CallAddField(errs, FALSE, MaxMade, MaxFieldErrors)
    \/ \E k \in 0..MaxBatch : CallAddRawFields(k, MaxMade, MaxFieldErrors)
    \/ \E errLists \in SeqsUpTo(BatchErrLists, MaxBatch) :
           CallAddFields(errLists, MaxMade, MaxFieldErrors)
    \/ CallFinalize

SpecFields == Init /\ [][NextFields]_vars

\* The sub-objects, on an embed that the caller either leaves without
\* fields or fills with one AddRawFields call to the limit or to one below
\* it, adding Field builders one at a time afterwards.
NextSubs ==
    \/ \E k \in {maxFieldCount - 1, maxFieldCount} :
           made = 0 /\ CallAddRawFields(k, maxFieldCount, MaxFieldErrors)
    \/ \E errs \in SubErrLists :
           /\ made >= maxFieldCount - 1
           /\ CallAddField(errs, FALSE, maxFieldCount + MaxOver, MaxFieldErrors)
    \/ \E author \in SubBuilders("author") : CallSetAuthor(author)
    \/ CallSetRawAuthor("author")
    \/ \E thumb \in SubBuilders("thumbnail") : CallSetThumbnail(thumb)
    \/ CallSetRawThumbnail("thumbnail")
    \/ \E provider \in SubBuilders("provider") : CallSetProvider(provider)
    \/ CallSetRawProvider("provider")
    \/ \E footer \in Footers : CallSetFooter(footer)
    \/ CallSetRawFooter("footer1")
    \/ \E vid \in SubBuilders("video") : CallSetVideo(vid)
    \/ CallSetRawVideo("video")
    \/ \E img \in SubBuilders("image") : CallSetImage(img)
    \/ CallSetRawImage("image")
    \/ CallFinalize

SpecSubs == Init /\ [][NextSubs]_vars

\* A few fields with any inline flags, and the two operations on the flags.
NextInline ==
    \/ \E inline \in BOOLEAN : CallAddRawField(inline, MaxInlineMade, MaxFieldErrors)
    \/ \E errs \in SubErrLists, inline \in BOOLEAN :
           CallAddField(errs, inline, MaxInlineMade, MaxFieldErrors)
    \/ CallInlineAllFields
    \/ CallOutlineAllFields
    \/ CallFinalize

SpecInline == Init /\ [][NextInline]_vars

----------------------------------------------------------------------------
(* Properties.                                                             *)

IsLimitReached(err) == err.tmpl = "fieldLimitReached"
LimitReached(field) == Err("fieldLimitReached", <<>>, <<25>>, <<field.Name>>)

\* What a call appended to the error list.
Appended == SubSeq(e'.Errors.list, Len(e.Errors.list) + 1, Len(e'.Errors.list))
KeepsErrors == SubSeq(e'.Errors.list, 1, Len(e.Errors.list)) = e.Errors.list

Min(a, b) == IF a <= b THEN a ELSE b
Max(a, b) == IF a >= b THEN a ELSE b

\* C1: after 26 AddField calls on a new builder, each with a Field builder
\* free of errors, the embed holds the first 25 fields in call order and
\* the error list is exactly one "limit reached" error (for the 26th).
C1_TwentySixFields ==
    (hist.kind = "fields" /\ made = 26) =>
        /\ Len(e.Embed.Fields) = 25
        /\ \A i \in 1..25 : e.Embed.Fields[i] = NewField(i, FALSE)
        /\ ~e.Errors.isNil
        /\ e.Errors.list = <<LimitReached(NewField(26, FALSE))>>

C1_Witness == hist.kind = "fields" /\ made = 26

\* C2: SetTitle(s) sets the title to s and appends no error when
\* len(s) <= 256; otherwise it leaves the title unchanged and appends
\* exactly one "limit exceeded" error.
C2_SetTitle ==
    [][\A title \in Titles :
         CallSetTitle(title) =>
            IF title.len <= 256
            THEN e'.Embed.Title = title /\ e'.Errors = e.Errors
            ELSE /\ e'.Embed.Title = e.Embed.Title
                 /\ ~e'.Errors.isNil
                 /\ KeepsErrors
                 /\ Len(Appended) = 1
                 /\ Appended[1].tmpl = "characterCountExceedsLimit"
                 /\ Appended[1].strs = <<title>>]_vars

C2_Witness ==
    /\ e.Embed.Title.len = 256
    /\ ~e.Errors.isNil
    /\ e.Errors.list[Len(e.Errors.list)].tmpl = "characterCountExceedsLimit"

\* C3: SetColor(c) sets the color to c exactly when 0 <= c < 16777216;
\* otherwise the color keeps its value and exactly one "value not in range"
\* error is appended.
C3_SetColor ==
    [][\A color \in Colors :
         CallSetColor(color) =>
            IF 0 <= color /\ color < 16777216
            THEN e'.Embed.Color = color /\ e'.Errors = e.Errors
            ELSE /\ e'.Embed.Color = e.Embed.Color
                 /\ ~e'.Errors.isNil
                 /\ KeepsErrors
                 /\ Len(Appended) = 1
                 /\ Appended[1].tmpl = "valueNotBetween"
                 /\ Appended[1].nums[1] = color]_vars

C3_Witness ==
    /\ e.Embed.Color = 16777215
    /\ ~e.Errors.isNil
    /\ Len(e.Errors.list) = 2
    /\ e.Errors.list[1].tmpl = "valueNotBetween" /\ e.Errors.list[1].nums[1] = 16777216
    /\ e.Errors.list[2].tmpl = "valueNotBetween" /\ e.Errors.list[2].nums[1] = -1

\* C4: Finalize returns the builder's embed and the errors accumulated so
\* far and changes no field of the embed; a Finalize that directly follows
\* a Finalize returns a nil error list and the same embed pointer.
C4_FinalizeTwice ==
    [][CallFinalize =>
         /\ outErrs' = e.Errors
         /\ out' = EmbedPtr
         /\ e'.Embed = e.Embed
         /\ (finRun # <<>> => outErrs'.isNil /\ out' = out)]_vars

C4_Witness ==
    /\ Len(finRun) = 2
    /\ finRun[1]
    /\ outErrs.isNil
    /\ out = EmbedPtr

\* C5: a Footer builder holding exactly one error is attached with
\* SetFooter to a new builder and no other call fails: Finalize then
\* returns exactly that one error, and the embed's footer is the Footer
\* builder's raw result.
C5_FooterError ==
    hist.kind = "footerFinal" =>
        /\ ~outErrs.isNil
        /\ outErrs.list = hist.fb.errs.list
        /\ Len(outErrs.list) = 1
        /\ out = EmbedPtr
        /\ Deref(out).Footer = hist.fb.raw

C5_Witness == hist.kind = "footerFinal" /\ Len(e.Embed.Fields) = 25

\* C6: InlineAllFields sets every attached field's inline flag,
\* OutlineAllFields (also right after InlineAllFields) clears every one;
\* both keep the fields' number, order and names, every other property of
\* the embed and the error list, and change nothing when no field is
\* attached.
SameButInline(new, old, flag) ==
    /\ Len(new.Embed.Fields) = Len(old.Embed.Fields)
    /\ \A i \in 1..Len(old.Embed.Fields) :
          new.Embed.Fields[i] = [old.Embed.Fields[i] EXCEPT !.Inline = flag]
    /\ [new.Embed EXCEPT !.Fields = <<>>] = [old.Embed EXCEPT !.Fields = <<>>]
    /\ new.Errors = old.Errors
    /\ (Len(old.Embed.Fields) = 0 => new = old)

C6_InlineOutline ==
    [][/\ CallInlineAllFields => SameButInline(e', e, TRUE)
       /\ CallOutlineAllFields => SameButInline(e', e, FALSE)
       /\ SameButInline(OutlineAllFields(InlineAllFields(e')), e', FALSE)]_vars

C6_Witness ==
    /\ hist.kind = "inlineOutline"
    /\ Len(e.Embed.Fields) = 3
    /\ \A i \in 1..3 : ~e.Embed.Fields[i].Inline

\* C7: the error list is nil or non-empty, never an allocated empty slice:
\* nil after NewEmbed and after every Finalize, and still nil after
\* absorbing sub-object builders whose error list is nil or empty.
\* Every call that attaches a sub-object builder satisfies P(builder).
Absorbing(P(_)) ==
    /\ \A author \in SubBuilders("author") : CallSetAuthor(author) => P(author)
    /\ \A thumb \in SubBuilders("thumbnail") : CallSetThumbnail(thumb) => P(thumb)
    /\ \A provider \in SubBuilders("provider") : CallSetProvider(provider) => P(provider)
    /\ \A footer \in Footers : CallSetFooter(footer) => P(footer)
    /\ \A vid \in SubBuilders("video") : CallSetVideo(vid) => P(vid)
    /\ \A img \in SubBuilders("image") : CallSetImage(img) => P(img)

KeptIfNoErrors(builder) == NoErrors(builder.errs) => e'.Errors = e.Errors
AppendedAll(builder) == e'.Errors.list = e.Errors.list \o builder.errs.list

NilOrNonEmpty(errs) == errs.isNil \/ Len(errs.list) > 0

C7_NilOrNonEmpty ==
    /\ e.Errors.isNil
    /\ [][/\ NilOrNonEmpty(e'.Errors)
          /\ CallFinalize => e'.Errors.isNil
          /\ hist'.kind = "emptyAbsorb" => e'.Errors.isNil
          /\ Absorbing(KeptIfNoErrors)
          /\ \A errs \in SubErrLists :
                /\ CallAddField(errs, FALSE, maxFieldCount + MaxOver, MaxFieldErrors)
                /\ NoErrors(errs)
                /\ Len(e.Embed.Fields) < 25
                => e'.Errors = e.Errors]_vars

C7_Witness ==
    /\ hist.kind = "emptyAbsorb"
    /\ e.Errors.isNil
    /\ e.Embed.Footer # NilPtr
    /\ e.Embed.Provider # NilPtr

\* C8, as claimed: once Finalize has returned the embed, no later call on
\* the builder changes it.
C8_NeverMutatedAgain ==
    [][out = EmbedPtr => Deref(out)' = Deref(out)]_vars

\* C8, amended: the embed returned by Finalize is the builder's own.  After
\* Finalize, Finalize itself and every SetTitle, SetDescription, SetColor or
\* SetType call that fails its check (each of them changes the error list)
\* leave the returned embed unchanged, and a SetTitle or SetColor call that
\* passes its check changes the returned embed as it would before.
C8_RejectedCallsKeep ==
    [][out = EmbedPtr =>
         /\ e'.Errors # e.Errors => Deref(out)' = Deref(out)
         /\ \A title \in Titles :
               CallSetTitle(title) /\ title.len <= 256 => Deref(out)'.Title = title
         /\ \A color \in Colors :
               CallSetColor(color) /\ 0 <= color /\ color < 16777216
                   => Deref(out)'.Color = color]_vars

C8_Witness ==
    /\ out = EmbedPtr
    /\ ~e.Errors.isNil
    /\ Deref(out).Title.len = 256

\* C9: one AddFields or AddRawFields call with k fields on an embed
\* holding n appends the first min(k, 25 - n) in input order and drops each
\* of the others with its own "limit reached" error, max(0, n + k - 25) in
\* all; the embed never holds more than 25 fields.
BatchResult(raws) ==
    LET n == Len(e.Embed.Fields)
        k == Len(raws)
        fit == Min(k, 25 - n)
        limits == SelectSeq(Appended, IsLimitReached)
    IN  /\ e'.Embed.Fields = e.Embed.Fields \o SubSeq(raws, 1, fit)
        /\ KeepsErrors
        /\ Len(limits) = Max(0, n + k - 25)
        /\ limits = [i \in 1..(k - fit) |-> LimitReached(raws[fit + i])]

C9_Batches ==
    [][/\ Len(e'.Embed.Fields) <= 25
       /\ \A k \in 0..MaxBatch :
             CallAddRawFields(k, MaxMade, MaxFieldErrors) => BatchResult(RawFields(k, FALSE))
       /\ \A errLists \in SeqsUpTo(BatchErrLists, MaxBatch) :
             CallAddFields(errLists, MaxMade, MaxFieldErrors)
                 => BatchResult(RawFields(Len(errLists), FALSE))]_vars

C9_Witness ==
    /\ hist.kind = "overflow"
    /\ made = 27
    /\ Len(e.Embed.Fields) = 25
    /\ Len(SelectSeq(e.Errors.list, IsLimitReached)) = 2

\* C10: absorbing a sub-object builder's errors E appends E, in E's order,
\* to the error list L, which is otherwise kept as it is; AddField on an
\* embed holding 25 fields still absorbs E and records its "limit reached"
\* error after E.
C10_PureAppend ==
    [][/\ Absorbing(AppendedAll)
       /\ \A errs \in SubErrLists :
             CallAddField(errs, FALSE, maxFieldCount + MaxOver, MaxFieldErrors) =>
                 e'.Errors.list =
                     e.Errors.list \o errs.list \o
                     (IF Len(e.Embed.Fields) = 25
                      THEN <<LimitReached(NewField(made + 1, FALSE))>>
                      ELSE <<>>)]_vars

C10_Witness ==
    /\ Len(e.Embed.Fields) = 25
    /\ made = 26
    /\ hist.kind = "other"
    /\ e.Errors.list = <<SubErr(2), SubErr(1), LimitReached(NewField(26, FALSE))>>

====
